---- MODULE Spec2Model ----
(***************************************************************************)
(* Model of notebooks/forecast-script.py: generate_forecast_table (the     *)
(* per-column linear fit, the uncertainty derivation, the row assembly and *)
(* the final sort) and assess_forecast_reliability (the tier table).       *)
(*                                                                         *)
(* Arithmetic.  The script computes in IEEE doubles; the model computes    *)
(* exactly: a real is a normalised fraction <<num, den>> (den > 0), and    *)
(* MAE * sqrt(k) is kept as the surd q * sqrt(r).  Comparisons and         *)
(* roundings are decided exactly (round half to even, as Python's round).  *)
(* A float that is nan or inf is a tagged record, so that a comparison     *)
(* with nan is FALSE as in numpy.                                          *)
(***************************************************************************)
EXTENDS Integers, Sequences, FiniteSets, TLC

VARIABLES
    pc,                \* position of the script: "call", "loop", "year", "returned", "raised", "assessed", "assess_raised"
    historical_dfs,    \* argument: the dict {name: dataframe}, in insertion order
    target_columns,    \* argument: the dict {name: [column names]}
    years_to_forecast, \* argument
    include_cv,        \* argument
    include_r2,        \* argument
    last_year,         \* local of generate_forecast_table (line 82)
    results,           \* local: the list of result rows (line 88)
    gi, ci, yi,        \* indices of the three nested loops (lines 91, 94, 130)
    model,             \* locals of the current column's fit (lines 100-127)
    cur,               \* locals of the last executed forecast-year iteration (lines 130-150)
    heap,              \* the DataFrame objects: object id -> table
    forecast_table,    \* object id of the table returned by generate_forecast_table
    reliability_table, \* object id of the table returned by assess_forecast_reliability
    error,             \* the exception that ended the call, "" if none
    calls,             \* number of earlier calls of generate_forecast_table that returned
    previous           \* the rows and the table of the earlier call

vars == <<pc, historical_dfs, target_columns, years_to_forecast, include_cv, include_r2,
          last_year, results, gi, ci, yi, model, cur, heap, forecast_table,
          reliability_table, error, calls, previous>>

-----------------------------------------------------------------------------
(* Exact arithmetic on fractions <<n, d>>, d > 0, in lowest terms.         *)

Abs(x) == IF x < 0 THEN -x ELSE x

RECURSIVE GCD(_, _)
GCD(a, b) == IF b = 0 THEN a ELSE GCD(b, a % b)

Norm(n, d) ==
    LET g == GCD(Abs(n), d) IN IF g = 0 THEN <<0, 1>> ELSE <<n \div g, d \div g>>

Rat(n)     == <<n, 1>>
RAdd(a, b) == Norm(a[1] * b[2] + b[1] * a[2], a[2] * b[2])
RNeg(a)    == <<-a[1], a[2]>>
RSub(a, b) == RAdd(a, RNeg(b))
RMul(a, b) ==
    LET g1 == GCD(Abs(a[1]), b[2])
        g2 == GCD(Abs(b[1]), a[2])
        h1 == IF g1 = 0 THEN 1 ELSE g1
        h2 == IF g2 = 0 THEN 1 ELSE g2
    IN  Norm((a[1] \div h1) * (b[1] \div h2), (a[2] \div h2) * (b[2] \div h1))
RDiv(a, b) == \* b # 0
    IF b[1] > 0 THEN RMul(a, <<b[2], b[1]>>) ELSE RMul(a, <<-b[2], -b[1]>>)
RAbs(a)    == <<Abs(a[1]), a[2]>>
LCM(a, b)  == (a \div GCD(a, b)) * b
RLe(a, b)  == LET l == LCM(a[2], b[2]) IN a[1] * (l \div a[2]) <= b[1] * (l \div b[2])
RLt(a, b)  == ~RLe(b, a)

RECURSIVE RSum(_)
RSum(s) == IF s = <<>> THEN Rat(0) ELSE RAdd(Head(s), RSum(Tail(s)))

\* Python's round(x) on a float: to the nearest integer, a tie to the even one.
Round(a) ==
    LET fl  == a[1] \div a[2]
        rem == a[1] - fl * a[2]
    IN  IF 2 * rem < a[2] THEN fl
        ELSE IF 2 * rem > a[2] THEN fl + 1
        ELSE IF fl % 2 = 0 THEN fl ELSE fl + 1

\* floor(sqrt(n)) for 0 <= n, by bisection on lo^2 <= n < hi^2.
RECURSIVE ISqrtB(_, _, _)
ISqrtB(lo, hi, n) ==
    IF hi - lo <= 1 THEN lo
    ELSE LET mid == (lo + hi) \div 2
         IN  IF mid * mid <= n THEN ISqrtB(mid, hi, n) ELSE ISqrtB(lo, mid, n)
ISqrt(n) == ISqrtB(0, 46341, n)

-----------------------------------------------------------------------------
(* Surds q * sqrt(r), q a fraction >= 0, r in 1..3 or a perfect square     *)
(* folded into q: the values the local `uncertainty` takes.                *)

Surd(q, r) ==
    LET s == ISqrt(r) IN
    IF s * s = r THEN [q |-> RMul(q, Rat(s)), r |-> 1] ELSE [q |-> q, r |-> r]

\* a <= b for surds, by comparing the squares over a common denominator.
SLe(a, b) ==
    IF a.r = b.r THEN RLe(a.q, b.q)
    ELSE LET l == LCM(a.q[2], b.q[2])
             x == a.q[1] * (l \div a.q[2])
             y == b.q[1] * (l \div b.q[2])
         IN  x * x * a.r <= y * y * b.r
SMin(a, b) == IF SLe(a, b) THEN a ELSE b
SMax(a, b) == IF SLe(b, a) THEN a ELSE b

\* round(q * sqrt(r)): floor(2 q sqrt(r)) = isqrt(floor(4 n^2 r / d^2)); an
\* irrational value is never a tie.
SRound(a) ==
    IF a.r = 1 THEN Round(a.q)
    ELSE LET t == ISqrt((4 * a.q[1] * a.q[1] * a.r) \div (a.q[2] * a.q[2]))
         IN  (t + 1) \div 2

-----------------------------------------------------------------------------
(* Floats that may be nan or inf (numpy semantics): a comparison with nan  *)
(* is FALSE, +inf is above every number.                                   *)

Num(q) == [k |-> "num", v |-> q]
NaN    == [k |-> "nan", v |-> <<0, 1>>]
Inf    == [k |-> "inf", v |-> <<0, 1>>]

FLe(x, q) == x.k = "num" /\ RLe(x.v, q)        \* x <= q
FGe(x, q) == \/ x.k = "inf"
             \/ x.k = "num" /\ RLe(q, x.v)     \* x >= q
FGt(x, q) == \/ x.k = "inf"
             \/ x.k = "num" /\ RLt(q, x.v)     \* x > q

\* round(x, digits) and Series.round(digits): scale, round half to even, unscale;
\* nan and inf are left as they are.
RoundTo(x, scale) ==
    IF x.k = "num" THEN Num(Norm(Round(RMul(x.v, Rat(scale))), scale)) ELSE x

-----------------------------------------------------------------------------
(* The data.  A cell of a column is <<v>> or, when the value is missing,   *)
(* <<>>.  A dataframe is [name, Year, cols]; the dicts historical_dfs and  *)
(* target_columns keep their insertion order.                              *)

IsNull(cell) == cell = <<>>

\* df[column].isnull().any()  (line 96)
AnyNull(col) == \E i \in DOMAIN col : IsNull(col[i])

\* df[column].values as exact numbers (line 101)
Values(col) == [i \in DOMAIN col |-> Rat(col[i][1])]

\* X = df['Year'].values (line 100)
YearValues(df) == [i \in DOMAIN df.Year |-> Rat(df.Year[i])]

RECURSIVE MaxOf(_)
MaxOf(s) == IF Len(s) = 1 THEN s[1]
            ELSE LET m == MaxOf(Tail(s)) IN IF s[1] >= m THEN s[1] ELSE m

\* max([df['Year'].max() for df in historical_dfs.values()])  (line 82)
LastYear(dfs) == MaxOf([g \in DOMAIN dfs |-> MaxOf(dfs[g].Year)])

\* range(last_year + 1, last_year + years_to_forecast + 1)  (line 85)
forecast_years(ly, h) == [i \in 1..h |-> ly + i]

\* np.mean
Mean(s) == RDiv(RSum(s), Rat(Len(s)))

\* A fit that ignores the trend: the mean of y at every year.
FitMeanOnly(X, y) == [coef |-> Rat(0), intercept |-> Mean(y)]

\* LinearRegression().fit(X, y) (lines 103-104): ordinary least squares on the
\* centred data; with a single sample the centred X is 0 and the least-squares
\* solution of minimal norm has coefficient 0.
Fit(X, y) ==
    LET xb   == Mean(X)
        yb   == Mean(y)
        sxx  == RSum([i \in DOMAIN X |-> RMul(RSub(X[i], xb), RSub(X[i], xb))])
        sxy  == RSum([i \in DOMAIN X |-> RMul(RSub(X[i], xb), RSub(y[i], yb))])
        coef == IF sxx[1] = 0 THEN Rat(0) ELSE RDiv(sxy, sxx)
    IN  [coef |-> coef, intercept |-> RSub(yb, RMul(coef, xb))]

\* model.predict  (lines 107, 135)
Predict(m, x) == RAdd(RMul(m.coef, x), m.intercept)

\* mae = np.mean(np.abs(y - y_pred))  (lines 107-111)
MAE(m, X, y) == Mean([i \in DOMAIN X |-> RAbs(RSub(y[i], Predict(m, X[i])))])

\* model.score(X, y) (line 118): r2_score; nan with fewer than two samples; with
\* a constant y it is 1.0 for a perfect fit and 0.0 otherwise.
Score(m, X, y) ==
    LET yb  == Mean(y)
        ssr == RSum([i \in DOMAIN X |->
                   RMul(RSub(y[i], Predict(m, X[i])), RSub(y[i], Predict(m, X[i])))])
        sst == RSum([i \in DOMAIN X |-> RMul(RSub(y[i], yb), RSub(y[i], yb))])
    IN  IF Len(X) < 2 THEN NaN
        ELSE IF sst[1] = 0 THEN (IF ssr[1] = 0 THEN Num(Rat(1)) ELSE Num(Rat(0)))
        ELSE Num(RSub(Rat(1), RDiv(ssr, sst)))

\* floor(100^k * a / b) and whether the division is exact, a >= 0, b > 0, without
\* forming the product: <<quotient, remainder>> carried through k steps.
RECURSIVE ScaledDiv(_, _, _)
ScaledDiv(qr, b, k) ==
    IF k = 0 THEN qr
    ELSE ScaledDiv(<<qr[1] * 100 + (qr[2] * 100) \div b, (qr[2] * 100) % b>>, b, k - 1)

\* The nearest integer to 1000 * sqrt(sq), a tie to the even one.
RoundSqrt1000(sq) ==
    LET m   == ScaledDiv(<<sq[1] \div sq[2], sq[1] % sq[2]>>, sq[2], 3)
        q4  == m[1] * 4 + (m[2] * 4) \div sq[2]
        r4  == (m[2] * 4) % sq[2]
        t   == ISqrt(q4)                      \* floor(2 * 1000 * sqrt(sq))
        tie == r4 = 0 /\ t * t = q4 /\ t % 2 = 1
        lo  == t \div 2
    IN  IF t % 2 = 0 THEN lo
        ELSE IF tie /\ lo % 2 = 0 THEN lo
        ELSE lo + 1

\* np.std(y) ** 2: the population variance
Variance(y) ==
    LET yb == Mean(y)
    IN  Mean([i \in DOMAIN y |-> RMul(RSub(y[i], yb), RSub(y[i], yb))])

\* cv = (np.std(y) / mean_value) * 100 if mean_value != 0 else np.inf  (lines
\* 113-115): kept as its sign and the square of std / mean.
CV(y) ==
    LET mean_value == Mean(y)
    IN  IF mean_value[1] # 0
        THEN [k |-> "num", neg |-> mean_value[1] < 0,
              sq |-> RDiv(Variance(y), RMul(mean_value, mean_value))]
        ELSE [k |-> "inf", neg |-> FALSE, sq |-> Rat(0)]

\* round(cv, 1)  (line 163): round(inf, 1) is inf
RoundCV(cv) ==
    IF cv.k = "inf" THEN Inf
    ELSE LET tenths == RoundSqrt1000(cv.sq)
         IN  Num(Norm(IF cv.neg THEN -tenths ELSE tenths, 10))

None == [k |-> "none", v |-> <<0, 1>>]

\* The absolute percentage errors of the points with a nonzero actual value
\* (lines 122-125), 0 at the other points.
PctErrors(m, X, y) ==
    [i \in DOMAIN X |->
        IF y[i][1] = 0 THEN Rat(0)
        ELSE RAbs(RDiv(RSub(y[i], Predict(m, X[i])), y[i]))]

\* mape = 0 when no actual value is nonzero.
MAPEZeroWhenEmpty(m, X, y) ==
    LET valid == {i \in DOMAIN X : y[i][1] # 0}
    IN  IF valid = {} THEN Num(Rat(0))
        ELSE Num(RMul(RDiv(RSum(PctErrors(m, X, y)), Rat(Cardinality(valid))), Rat(100)))

\* mape  (lines 120-127): the mean over the points with y != 0, nan without any
MAPE(m, X, y) ==
    LET valid == {i \in DOMAIN X : y[i][1] # 0}
    IN  IF valid = {} THEN NaN
        ELSE Num(RMul(RDiv(RSum(PctErrors(m, X, y)), Rat(Cardinality(valid))), Rat(100)))

\* round(mape, 1) if not np.isnan(mape) else None  (line 168)
RoundMAPE(mape) == IF mape.k = "nan" THEN None ELSE RoundTo(mape, 10)

-----------------------------------------------------------------------------
(* The uncertainty of one forecast year (lines 137-150).                   *)

max_uncertainty_pct == 50
min_uncertainty     == 50
small_forecast      == 1000

\* uncertainty = mae * np.sqrt(years_out)  (lines 139-140)
BaseUncertainty(mae, years_out) == Surd(mae, years_out)

\* The cap taken at 60% of the forecast instead of max_uncertainty_pct.
max_uncertainty_60(forecast_value) == RMul(RAbs(forecast_value), Norm(60, 100))

\* max_uncertainty = abs(forecast_value) * (max_uncertainty_pct / 100)  (line 144)
max_uncertainty(forecast_value) ==
    RMul(RAbs(forecast_value), Norm(max_uncertainty_pct, 100))

\* uncertainty = min(uncertainty, max_uncertainty)  (line 145)
Cap(u, forecast_value) == SMin(u, [q |-> max_uncertainty(forecast_value), r |-> 1])

\* The uncertainty left as the cap gives it, without a floor.
NoFloor(u, forecast_value) == u

\* if abs(forecast_value) < 1000: uncertainty = max(uncertainty, min_uncertainty)
\* (lines 148-150)
Floor(u, forecast_value) ==
    IF RLt(RAbs(forecast_value), Rat(small_forecast))
    THEN SMax(u, [q |-> Rat(min_uncertainty), r |-> 1])
    ELSE u

\* The floor before the cap: the two steps in the other order.
UncertaintyFloorFirst(mae, years_out, forecast_value) ==
    Cap(Floor(BaseUncertainty(mae, years_out), forecast_value), forecast_value)

\* lines 139-150 in the order of the code: base, cap, floor
Uncertainty(mae, years_out, forecast_value) ==
    Floor(Cap(BaseUncertainty(mae, years_out), forecast_value), forecast_value)

\* years_out = i + 1, i the 0-based index of enumerate(forecast_years)  (line 132)
years_out_of(i) == i + 1

\* result_row  (lines 153-168): the optional columns CV and R2 are keys of the
\* row only when asked for
result_row(year, category, column, forecast_value, uncertainty, m, with_cv, with_r2) ==
    LET y  == year
        c  == category
        mt == column
        f  == Round(forecast_value)
        u  == SRound(uncertainty)
        cv == RoundCV(m.cv)
        r2 == RoundTo(m.r2, 1000)
        mp == RoundMAPE(m.mape)
    IN  IF with_cv /\ with_r2
        THEN [Year |-> y, Category |-> c, Metric |-> mt, Forecast |-> f,
              Uncertainty |-> u, CV |-> cv, R2 |-> r2, MAPE |-> mp]
        ELSE IF with_cv
        THEN [Year |-> y, Category |-> c, Metric |-> mt, Forecast |-> f,
              Uncertainty |-> u, CV |-> cv, MAPE |-> mp]
        ELSE IF with_r2
        THEN [Year |-> y, Category |-> c, Metric |-> mt, Forecast |-> f,
              Uncertainty |-> u, R2 |-> r2, MAPE |-> mp]
        ELSE [Year |-> y, Category |-> c, Metric |-> mt, Forecast |-> f,
              Uncertainty |-> u, MAPE |-> mp]

-----------------------------------------------------------------------------
(* The final sort (line 175).                                              *)

\* The order of Python strings on the names the model uses.
NameRank(s) == CASE s = "A" -> 1 [] s = "B" -> 2 [] s = "m1" -> 1 [] s = "m2" -> 2

KeyLt(a, b) ==
    \/ a.Year < b.Year
    \/ a.Year = b.Year /\ NameRank(a.Category) < NameRank(b.Category)
    \/ a.Year = b.Year /\ a.Category = b.Category
       /\ NameRank(a.Metric) < NameRank(b.Metric)

\* row put behind every row of the sorted list whose key is not larger (stable)
RECURSIVE InsertRow(_, _)
InsertRow(sorted, row) ==
    IF sorted = <<>> THEN <<row>>
    ELSE IF KeyLt(row, sorted[Len(sorted)])
         THEN Append(InsertRow(SubSeq(sorted, 1, Len(sorted) - 1), row), sorted[Len(sorted)])
         ELSE Append(sorted, row)

\* The rows left in the order they were appended in.
AsAppended(rows) == rows

\* forecast_table.sort_values(['Year', 'Category', 'Metric'])
RECURSIVE sort_values(_)
sort_values(rows) ==
    IF rows = <<>> THEN <<>>
    ELSE InsertRow(sort_values(SubSeq(rows, 1, Len(rows) - 1)), rows[Len(rows)])

-----------------------------------------------------------------------------
(* assess_forecast_reliability (lines 194-222).                            *)

\* (Uncertainty / Forecast.abs()) * 100 on pandas columns (line 198): a division
\* by zero gives inf, and 0 / 0 gives nan.
UncertaintyPct(row) ==
    IF row.Forecast # 0 THEN Num(Norm(row.Uncertainty * 100, Abs(row.Forecast)))
    ELSE IF row.Uncertainty = 0 THEN NaN ELSE Inf

\* The rules as disjoint bands of R2: a rule does not take a row whose R2 reaches
\* the threshold of the rule before it.
conditionsBanded(pct, r2) ==
    << FLe(pct, Rat(10)) /\ FGe(r2, Norm(9, 10)),
       FLe(pct, Rat(25)) /\ FGe(r2, Norm(7, 10)) /\ ~FGe(r2, Norm(9, 10)),
       FLe(pct, Rat(40)) /\ FGe(r2, Norm(5, 10)) /\ ~FGe(r2, Norm(7, 10)),
       FLe(pct, Rat(60)),
       FGt(pct, Rat(60)) >>

\* conditions  (lines 201-207)
conditions(pct, r2) ==
    << FLe(pct, Rat(10)) /\ FGe(r2, Norm(9, 10)),
       FLe(pct, Rat(25)) /\ FGe(r2, Norm(7, 10)),
       FLe(pct, Rat(40)) /\ FGe(r2, Norm(5, 10)),
       FLe(pct, Rat(60)),
       FGt(pct, Rat(60)) >>

\* categories  (lines 209-215)
categories ==
    << "High Reliability", "Good Reliability", "Moderate Reliability",
       "Low Reliability", "Very Low Reliability" >>

\* np.select taking the last condition that is true.
SelectLast(conds, choices, default) ==
    IF \E i \in DOMAIN conds : conds[i]
    THEN choices[CHOOSE i \in DOMAIN conds :
                    conds[i] /\ \A j \in DOMAIN conds : conds[j] => j <= i]
    ELSE default

\* np.select(conditions, categories, default): the choice of the first condition
\* that is true, the default when none is.
Select(conds, choices, default) ==
    IF \E i \in DOMAIN conds : conds[i]
    THEN choices[CHOOSE i \in DOMAIN conds :
                    conds[i] /\ \A j \in DOMAIN conds : conds[j] => i <= j]
    ELSE default

\* lines 198-220 for one row (of a table with the R2 column): the two added
\* columns
ReliabilityRow(row) ==
    LET pct  == RoundTo(UncertaintyPct(row), 10)
        tier == Select(conditions(UncertaintyPct(row), row.R2), categories, "Unknown")
    IN  IF "CV" \in DOMAIN row
        THEN [Year |-> row.Year, Category |-> row.Category, Metric |-> row.Metric,
              Forecast |-> row.Forecast, Uncertainty |-> row.Uncertainty,
              CV |-> row.CV, R2 |-> row.R2, MAPE |-> row.MAPE,
              UncertaintyPct |-> pct, Reliability |-> tier]
        ELSE [Year |-> row.Year, Category |-> row.Category, Metric |-> row.Metric,
              Forecast |-> row.Forecast, Uncertainty |-> row.Uncertainty,
              R2 |-> row.R2, MAPE |-> row.MAPE,
              UncertaintyPct |-> pct, Reliability |-> tier]

\* The object the columns are added to when the table is not copied.
SameObject(id) == id

\* forecast_table.copy() (line 195): a new DataFrame object
Copy(id) == id + 1

-----------------------------------------------------------------------------
(* The calls the model explores.                                           *)

MaxYearsToForecast == 3
MaxPoints          == 3

Cells(s) == [i \in DOMAIN s |-> <<s[i]>>]

\* Historical series of n points for the first requested column.
SeriesM1(n) ==
    CASE n = 1 -> { Cells(<<500>>), << <<>> >> }
      [] n = 2 -> { Cells(<<10, 5>>), Cells(<<900, 990>>), Cells(<<-10, 10>>),
                    << <<>>, <<5>> >> }
      [] n = 3 -> { Cells(<<100, 120, 140>>), Cells(<<0, 3004, 0>>), Cells(<<0, 0, 0>>),
                    Cells(<<1000, 1100, 1300>>), Cells(<<1350, 450, 1350>>),
                    Cells(<<1080, 1260, 1260>>), Cells(<<90, 72, 0>>),
                    Cells(<<36, 0, 18>>), Cells(<<0, 540, 450>>),
                    Cells(<<0, 900, 0>>), << <<100>>, <<>>, <<140>> >> }
      [] OTHER -> { Cells(<<100, 120, 140, 160>>), Cells(<<0, 1800, 0, 1800>>),
                    << <<100>>, <<>>, <<140>>, <<160>> >> }

\* Historical series of n points for the second column.
SeriesM2(n) ==
    CASE n = 1 -> { Cells(<<500>>) }
      [] n = 2 -> { Cells(<<900, 990>>), << <<>>, <<5>> >> }
      [] n = 3 -> { Cells(<<100, 120, 140>>), Cells(<<0, 900, 0>>),
                    << <<100>>, <<>>, <<140>> >> }
      [] OTHER -> { Cells(<<100, 120, 140, 160>>) }

\* n consecutive years ending in `last`
YearsEnding(last, n) == [i \in 1..n |-> last - n + i]

\* The five years 2021-2025 of the script's data, with a perfectly linear
\* column and a column of mean 0.
FiveYears ==
    [name |-> "A", Year |-> YearsEnding(2025, 5),
     cols |-> [m1 |-> Cells(<<100, 120, 140, 160, 180>>),
               m2 |-> Cells(<<-20, -10, 0, 10, 20>>)]]

DataframesA ==
    { [name |-> "A", Year |-> YearsEnding(2025, n), cols |-> [m1 |-> a, m2 |-> b]] :
        <<n, a, b>> \in UNION { {n} \X SeriesM1(n) \X SeriesM2(n) : n \in 1..MaxPoints } }
    \cup {FiveYears}

\* A second group, whose history ends a year before or with the first group's.
DataframesB ==
    { [name |-> "B", Year |-> YearsEnding(last, 2), cols |-> [m1 |-> a]] :
        <<last, a>> \in { <<2024, Cells(<<10, 5>>)>>, <<2024, << <<>>, <<5>> >> >>,
                          <<2025, Cells(<<900, 990>>)>> } }

HistoricalDfs ==
    { <<a>> : a \in DataframesA }
    \cup { <<a, b>> : <<a, b>> \in DataframesA \X DataframesB }
    \cup { <<b, a>> : <<a, b>> \in DataframesA \X DataframesB }

TargetColumns ==
    { [A |-> l, B |-> <<"m1">>] :
        l \in { <<"m1">>, <<"m1", "m2">>, <<"m2", "m1">>, <<"m1", "m1">> } }

\* The flags other than the defaults are explored on the calls with one group
\* and both of its columns.
Flags == { <<TRUE, TRUE>>, <<TRUE, FALSE>>, <<FALSE, TRUE>>, <<FALSE, FALSE>> }

NoModel == [coef |-> Rat(0), intercept |-> Rat(0), mae |-> Rat(0), r2 |-> NaN,
            cv |-> [k |-> "inf", neg |-> FALSE, sq |-> Rat(0)], mape |-> NaN]
NoPrevious == [results |-> <<>>, table |-> <<>>]
NoCur   == [year |-> 0, years_out |-> 0, category |-> "", column |-> "",
            mae |-> Rat(0), forecast_value |-> Rat(0),
            base |-> [q |-> Rat(0), r |-> 1], capped |-> [q |-> Rat(0), r |-> 1],
            uncertainty |-> [q |-> Rat(0), r |-> 1]]

Init ==
    /\ pc = "call"
    /\ historical_dfs \in HistoricalDfs
    /\ \E f \in Flags :
          /\ include_cv = f[1] /\ include_r2 = f[2]
          /\ target_columns \in
                IF f = <<TRUE, TRUE>> THEN TargetColumns
                ELSE IF Len(historical_dfs) = 1
                     THEN {[A |-> <<"m1", "m2">>, B |-> <<"m1">>]}
                     ELSE {}
    /\ years_to_forecast \in 1..MaxYearsToForecast
    /\ last_year = 0
    /\ results = <<>>
    /\ gi = 0 /\ ci = 0 /\ yi = 0
    /\ model = NoModel
    /\ cur = NoCur
    /\ heap = [id \in 1..3 |-> <<>>]
    /\ forecast_table = 0
    /\ reliability_table = 0
    /\ error = ""
    /\ calls = 0
    /\ previous = NoPrevious

-----------------------------------------------------------------------------
(* generate_forecast_table (lines 58-177), one action per step of its      *)
(* loops, and assess_forecast_reliability.                                 *)

Df       == historical_dfs[gi]
Category == Df.name
Columns  == target_columns[Category]
Column   == Columns[ci]

\* lines 81-88: last_year, forecast_years, results = []
Call ==
    /\ pc = "call"
    /\ last_year' = LastYear(historical_dfs)
    /\ results' = <<>>
    /\ gi' = 1 /\ ci' = 1
    /\ pc' = "loop"
    /\ UNCHANGED <<historical_dfs, target_columns, years_to_forecast, include_cv, calls, previous,
                   include_r2, yi, model, cur,
                   heap, forecast_table, reliability_table, error>>

\* lines 94-97: a column with a missing value is skipped
SkipColumn ==
    /\ pc = "loop"
    /\ gi <= Len(historical_dfs)
    /\ ci <= Len(Columns)
    /\ AnyNull(Df.cols[Column])
    /\ ci' = ci + 1
    /\ UNCHANGED <<pc, historical_dfs, target_columns, years_to_forecast, include_cv, calls, previous,
                   include_r2, last_year,
                   results, gi, yi, model, cur, heap, forecast_table,
                   reliability_table, error>>

\* lines 99-127: the fit of one column and its statistics
FitColumn ==
    /\ pc = "loop"
    /\ gi <= Len(historical_dfs)
    /\ ci <= Len(Columns)
    /\ ~AnyNull(Df.cols[Column])
    /\ LET X == YearValues(Df)
           y == Values(Df.cols[Column])
           m == Fit(X, y)
       IN  model' = [coef |-> m.coef, intercept |-> m.intercept,
                     mae |-> MAE(m, X, y), r2 |-> Score(m, X, y),
                     cv |-> CV(y), mape |-> MAPE(m, X, y)]
    /\ yi' = 0
    /\ pc' = "year"
    /\ UNCHANGED <<historical_dfs, target_columns, years_to_forecast, include_cv, calls, previous,
                   include_r2, last_year,
                   results, gi, ci, cur, heap, forecast_table, reliability_table, error>>

\* lines 130-171: one iteration of the loop over forecast_years
ForecastYear ==
    /\ pc = "year"
    /\ LET year           == forecast_years(last_year, years_to_forecast)[yi + 1]
           years_out      == years_out_of(yi)
           forecast_value == Predict(model, Rat(year))
           base           == BaseUncertainty(model.mae, years_out)
           capped         == Cap(base, forecast_value)
           uncertainty    == Uncertainty(model.mae, years_out, forecast_value)
       IN  /\ cur' = [year |-> year, years_out |-> years_out,
                      category |-> Category, column |-> Column,
                      mae |-> model.mae, forecast_value |-> forecast_value,
                      base |-> base, capped |-> capped, uncertainty |-> uncertainty]
           /\ results' = Append(results,
                  result_row(year, Category, Column, forecast_value, uncertainty, model,
                             include_cv, include_r2))
    /\ IF yi + 1 < years_to_forecast
       THEN yi' = yi + 1 /\ UNCHANGED <<pc, ci>>
       ELSE yi' = 0 /\ pc' = "loop" /\ ci' = ci + 1
    /\ UNCHANGED <<historical_dfs, target_columns, years_to_forecast, include_cv, calls, previous,
                   include_r2, last_year, gi,
                   model, heap, forecast_table, reliability_table, error>>

\* line 91: the next dataset, once the columns of this one are done
NextCategory ==
    /\ pc = "loop"
    /\ gi <= Len(historical_dfs)
    /\ ci > Len(Columns)
    /\ gi' = gi + 1 /\ ci' = 1
    /\ UNCHANGED <<pc, historical_dfs, target_columns, years_to_forecast, include_cv, calls, previous,
                   include_r2, last_year,
                   results, yi, model, cur, heap, forecast_table, reliability_table,
                   error>>

\* lines 173-177 with rows: the DataFrame of the rows, sorted, is returned
ReturnSorted ==
    /\ pc = "loop"
    /\ gi > Len(historical_dfs)
    /\ results # <<>>
    /\ heap' = [heap EXCEPT ![1] = sort_values(results)]
    /\ forecast_table' = 1
    /\ pc' = "returned"
    /\ UNCHANGED <<historical_dfs, target_columns, years_to_forecast, include_cv, calls, previous,
                   include_r2, last_year,
                   results, gi, ci, yi, model, cur, reliability_table, error>>

\* lines 173-175 without rows: pd.DataFrame([]) has no columns, and sort_values
\* on the missing column 'Year' raises KeyError
RaiseKeyError ==
    /\ pc = "loop"
    /\ gi > Len(historical_dfs)
    /\ results = <<>>
    /\ error' = "KeyError"
    /\ pc' = "raised"
    /\ UNCHANGED <<historical_dfs, target_columns, years_to_forecast, include_cv, calls, previous,
                   include_r2, last_year,
                   results, gi, ci, yi, model, cur, heap, forecast_table,
                   reliability_table>>

\* lines 194-202 on a table without the R2 column: the condition of line 202
\* raises KeyError; the copy is dropped with the call
AssessRaisesKeyError ==
    /\ pc = "returned"
    /\ "R2" \notin DOMAIN heap[forecast_table][1]
    /\ error' = "KeyError"
    /\ pc' = "assess_raised"
    /\ UNCHANGED <<historical_dfs, target_columns, years_to_forecast, include_cv, calls, previous,
                   include_r2, last_year, results, gi, ci, yi, model, cur, heap,
                   forecast_table, reliability_table>>

\* lines 194-222: the copy, and the two columns added to the copy
assess_forecast_reliability ==
    /\ pc = "returned"
    /\ "R2" \in DOMAIN heap[forecast_table][1]
    /\ LET dst    == Copy(forecast_table)
           copied == [heap EXCEPT ![dst] = heap[forecast_table]]
       IN  /\ heap' = [copied EXCEPT ![dst] =
                          [i \in DOMAIN copied[dst] |-> ReliabilityRow(copied[dst][i])]]
           /\ reliability_table' = dst
    /\ pc' = "assessed"
    /\ UNCHANGED <<historical_dfs, target_columns, years_to_forecast, include_cv, calls, previous,
                   include_r2, last_year,
                   results, gi, ci, yi, model, cur, forecast_table, error>>

Next ==
    \/ Call
    \/ SkipColumn
    \/ FitColumn
    \/ ForecastYear
    \/ NextCategory
    \/ ReturnSorted
    \/ RaiseKeyError
    \/ AssessRaisesKeyError
    \/ assess_forecast_reliability

Spec == Init /\ [][Next]_vars

-----------------------------------------------------------------------------
(* generate_forecast_table called a second time, after a call that         *)
(* returned, with the same data: the groups and the columns of each group  *)
(* in the same or in the reverse order.                                    *)

MaxCalls == 2

Reverse(s) == [i \in DOMAIN s |-> s[Len(s) + 1 - i]]

CallAgain ==
    /\ pc = "returned"
    /\ calls + 1 < MaxCalls
    /\ calls' = calls + 1
    /\ previous' = [results |-> results, table |-> heap[forecast_table]]
    /\ historical_dfs' \in {historical_dfs, Reverse(historical_dfs)}
    /\ target_columns' \in
          {target_columns, [n \in DOMAIN target_columns |-> Reverse(target_columns[n])]}
    /\ pc' = "call"
    /\ UNCHANGED <<years_to_forecast, include_cv, include_r2, last_year, results,
                   gi, ci, yi, model, cur, heap, forecast_table, reliability_table,
                   error>>

\* The first call is one of Init's on two groups, the larger one first, with the
\* default flags.
InitRepeat ==
    /\ Init
    /\ include_cv /\ include_r2
    /\ Len(historical_dfs) = 2
    /\ Len(historical_dfs[1].Year) >= MaxPoints

NextRepeat ==
    \/ Call
    \/ SkipColumn
    \/ FitColumn
    \/ ForecastYear
    \/ NextCategory
    \/ ReturnSorted
    \/ RaiseKeyError
    \/ CallAgain

SpecRepeat == InitRepeat /\ [][NextRepeat]_vars

-----------------------------------------------------------------------------
(* assess_forecast_reliability on its own, given a table of two rows whose *)
(* uncertainty percentages and R2 lie on and next to the thresholds.       *)

TierForecasts     == {1000, -1000}
TierUncertainties == {99, 100, 101, 250, 251, 400, 401, 600, 601}
TierR2s ==
    { Num(Norm(t, 1000)) : t \in {-500, 499, 500, 699, 700, 899, 900, 1000} } \cup {NaN}

TierRow(year, f, u, r2) ==
    [Year |-> year, Category |-> "A", Metric |-> "m1", Forecast |-> f,
     Uncertainty |-> u, CV |-> Num(Rat(0)), R2 |-> r2, MAPE |-> None]

InitTier ==
    /\ pc = "returned"
    /\ historical_dfs = <<FiveYears>>
    /\ target_columns = [A |-> <<"m1">>, B |-> <<"m1">>]
    /\ years_to_forecast = 2
    /\ include_cv = TRUE /\ include_r2 = TRUE
    /\ last_year = 2025
    /\ results = <<>>
    /\ gi = 0 /\ ci = 0 /\ yi = 0
    /\ model = NoModel
    /\ cur = NoCur
    /\ \E f1, f2 \in TierForecasts, u1, u2 \in TierUncertainties, a, b \in TierR2s :
          heap = [id \in 1..3 |->
                    IF id = 1 THEN <<TierRow(2026, f1, u1, a), TierRow(2027, f2, u2, b)>>
                    ELSE <<>>]
    /\ forecast_table = 1
    /\ reliability_table = 0
    /\ error = ""
    /\ calls = 0
    /\ previous = NoPrevious

NextTier == assess_forecast_reliability

SpecTier == InitTier /\ [][NextTier]_vars

-----------------------------------------------------------------------------
(* The claims.                                                             *)

Done        == pc \in {"returned", "raised", "assessed"}
Returned    == pc \in {"returned", "assessed"}
Table       == heap[forecast_table]
Iterated    == cur.year # 0
HalfOf(f)   == [q |-> RMul(RAbs(f), Norm(1, 2)), r |-> 1]
Fifty       == [q |-> Rat(50), r |-> 1]
IsSmall(f)  == RLt(RAbs(f), Rat(1000))

\* C1 (as stated): in every row the uncertainty is at most 50% of the absolute
\* forecast, and it is at least 50 when the absolute forecast is below 1000.
C1_Original ==
    \A i \in DOMAIN results :
        /\ 2 * results[i].Uncertainty <= Abs(results[i].Forecast)
        /\ Abs(results[i].Forecast) < 1000 => results[i].Uncertainty >= 50

\* C1 (amended): the cap of 50% bounds the uncertainty only where the absolute
\* forecast is at least 100: before rounding exactly, and in the rounded values of
\* the row up to the rounding (2 * Uncertainty <= |Forecast| + 1); below 100 the
\* floor of 50 is above the cap.  The uncertainty is at least 50 whenever the
\* absolute forecast is below 1000.
C1_Amended ==
    /\ \A i \in DOMAIN results :
        /\ Abs(results[i].Forecast) >= 100
              => 2 * results[i].Uncertainty <= Abs(results[i].Forecast) + 1
        /\ Abs(results[i].Forecast) < 1000 => results[i].Uncertainty >= 50
    /\ Iterated =>
        /\ RLe(Rat(100), RAbs(cur.forecast_value))
              => SLe(cur.uncertainty, HalfOf(cur.forecast_value))
        /\ IsSmall(cur.forecast_value) => SLe(Fifty, cur.uncertainty)

\* C1 witness: a table with a row where the cap binds up to the rounding
\* (forecast 1001, uncertainty 501) and a row of a small forecast at the floor.
C1_Witness ==
    /\ \E i \in DOMAIN results :
          results[i].Forecast = 1001 /\ results[i].Uncertainty = 501
    /\ \E j \in DOMAIN results :
          Abs(results[j].Forecast) < 1000 /\ results[j].Uncertainty = 50

\* The tier the ordered rule table gives to uncertainty% = 100 * u / |f| and r2
\* (in thousandths; not a number when nan), the last rule taking what is left.
RuleTier(u, f, r2) ==
    LET PctLe(t) == f # 0 /\ 100 * u <= t * Abs(f)
        R2Ge(t)  == r2.k = "num" /\ r2.v[1] * 1000 >= t * r2.v[2]
    IN  IF PctLe(10) /\ R2Ge(900) THEN "High Reliability"
        ELSE IF PctLe(25) /\ R2Ge(700) THEN "Good Reliability"
        ELSE IF PctLe(40) /\ R2Ge(500) THEN "Moderate Reliability"
        ELSE IF PctLe(60) THEN "Low Reliability"
        ELSE "Very Low Reliability"

C3_ZeroForecastUnknown ==
    pc = "assessed" =>
        \A i \in DOMAIN heap[reliability_table] :
            LET r == heap[reliability_table][i]
            IN  r.Forecast = 0 =>
                    /\ r.UncertaintyPct.k = "nan"
                    /\ r.Reliability = "Unknown"

\* C4: after every forecast-year iteration the uncertainty before rounding is
\* base = MAE * sqrt(k), capped = min(base, |forecast| / 2), and then
\* max(capped, 50) when |forecast| < 1000, capped otherwise.
C4_BaseCapFloor ==
    Iterated =>
        /\ RMul(RMul(cur.base.q, cur.base.q), Rat(cur.base.r))
              = RMul(RMul(cur.mae, cur.mae), Rat(cur.years_out))
        /\ cur.capped = (IF SLe(cur.base, HalfOf(cur.forecast_value))
                         THEN cur.base ELSE HalfOf(cur.forecast_value))
        /\ cur.uncertainty = (IF IsSmall(cur.forecast_value) /\ ~SLe(Fifty, cur.capped)
                              THEN Fifty ELSE cur.capped)

\* C4 witness: a small forecast whose base is above the cap, so that the cap
\* lowers it and the floor then lifts the result above the cap-derived value.
C4_Witness ==
    /\ Iterated
    /\ ~SLe(cur.base, HalfOf(cur.forecast_value))
    /\ cur.capped = HalfOf(cur.forecast_value)
    /\ ~SLe(cur.uncertainty, cur.capped)
    /\ cur.uncertainty = Fifty

\* The requested (group, column) pairs, by position in the two dicts.
Pairs ==
    { <<g, c>> \in (DOMAIN historical_dfs) \X (1..2) :
          c \in DOMAIN target_columns[historical_dfs[g].name] }
PairDf(p)     == historical_dfs[p[1]]
PairColumn(p) == target_columns[PairDf(p).name][p[2]]
PairSeries(p) == PairDf(p).cols[PairColumn(p)]
RowsOf(table, p) ==
    { i \in DOMAIN table :
          table[i].Category = PairDf(p).name /\ table[i].Metric = PairColumn(p) }

\* C5 (as stated): once the call has ended, a requested pair whose column has a
\* missing value has no row and no error was raised; every other pair has
\* exactly years_to_forecast rows, one per forecast year.
C5_SkipOrAllYears ==
    Done =>
        \A p \in Pairs :
            IF AnyNull(PairSeries(p))
            THEN error = "" /\ RowsOf(Table, p) = {}
            ELSE /\ error = ""
                 /\ Cardinality(RowsOf(Table, p)) = years_to_forecast
                 /\ \A y \in (last_year + 1)..(last_year + years_to_forecast) :
                        \E i \in RowsOf(Table, p) : Table[i].Year = y

\* C6 (as stated): whichever requested columns have a missing value, the call
\* ends by returning a table, never by raising.
C6_RunsToCompletion == Done => (error = "" /\ Returned)

SortedByKey(table) ==
    \A i, j \in DOMAIN table : i < j => ~KeyLt(table[j], table[i])
UniqueKeys(table) ==
    \A i, j \in DOMAIN table :
        i # j => ~(/\ table[i].Year = table[j].Year
                   /\ table[i].Category = table[j].Category
                   /\ table[i].Metric = table[j].Metric)

\* C7 (as stated): the returned table is sorted ascending by (Year, Category,
\* Metric) and has at most one row per (Year, Category, Metric).
C7_SortedUnique == Returned => (SortedByKey(Table) /\ UniqueKeys(Table))

FrameOf(name) ==
    historical_dfs[CHOOSE g \in DOMAIN historical_dfs : historical_dfs[g].name = name]

\* C8 (as stated): the horizon step of every iteration is the forecast year minus
\* the last historical year of the row's own series.
C8_StepFromOwnSeries ==
    Iterated => cur.years_out = cur.year - MaxOf(FrameOf(cur.category).Year)

\* C9 (as stated): a requested pair whose series has fewer than 2 historical
\* points has no row in the returned table, and every complete pair with at
\* least 2 points has rows.
C9_InsufficientDataSkipped ==
    Returned =>
        \A p \in Pairs :
            /\ Len(PairDf(p).Year) < 2 => RowsOf(Table, p) = {}
            /\ (Len(PairDf(p).Year) >= 2 /\ ~AnyNull(PairSeries(p)))
                  => RowsOf(Table, p) # {}

\* C10: the step of assess_forecast_reliability leaves the table it is given as it
\* was, and returns another table with the same rows in the same order, every
\* original column unchanged, plus the two added columns.
C10_InputUnchanged ==
    [][(pc = "returned" /\ pc' = "assessed") =>
          /\ forecast_table' = forecast_table
          /\ heap'[forecast_table] = heap[forecast_table]
          /\ reliability_table' # forecast_table
          /\ Len(heap'[reliability_table']) = Len(heap[forecast_table])
          /\ \A i \in DOMAIN heap[forecast_table] :
                LET old == heap[forecast_table][i]
                    new == heap'[reliability_table'][i]
                IN  /\ DOMAIN new = DOMAIN old \cup {"UncertaintyPct", "Reliability"}
                    /\ \A f \in DOMAIN old : new[f] = old[f]
    ]_vars

\* C10 witness: an assessed table of several rows, held by another object than
\* the table it was derived from.
C10_Witness ==
    /\ pc = "assessed"
    /\ Len(heap[forecast_table]) >= 2
    /\ Len(heap[reliability_table]) = Len(heap[forecast_table])

-----------------------------------------------------------------------------
(* The statistics carried in the rows.                                     *)

SeriesOfRow(row) == FrameOf(row.Category).cols[row.Metric]
NonzeroPoints(y) == { k \in DOMAIN y : y[k] # Rat(0) }

\* The mean, over the points of y with a nonzero value, of 100 * |y - fitted| / |y|.
MeanPctOverNonzero(X, y) ==
    LET m    == Fit(X, y)
        nz   == NonzeroPoints(y)
        errs == [k \in DOMAIN y |->
                    IF k \in nz
                    THEN RDiv(RMul(Rat(100), RAbs(RSub(y[k], Predict(m, X[k])))), RAbs(y[k]))
                    ELSE Rat(0)]
    IN  RDiv(RSum(errs), Rat(Cardinality(nz)))

\* C14: in the returned table every requested column without a missing value has
\* rows; the MAPE of a row is the mean absolute percentage error over the points
\* of its series with a nonzero value, rounded to one decimal, and it is None (not
\* 0) when every value of the series is 0.
C14_MapeOverNonzero ==
    Returned =>
        /\ \A p \in Pairs : ~AnyNull(PairSeries(p)) => RowsOf(Table, p) # {}
        /\ \A i \in DOMAIN Table :
              LET X == YearValues(FrameOf(Table[i].Category))
                  y == Values(SeriesOfRow(Table[i]))
              IN  IF NonzeroPoints(y) = {}
                  THEN Table[i].MAPE = None
                  ELSE Table[i].MAPE = RoundTo(Num(MeanPctOverNonzero(X, y)), 10)

\* C14 witness: a returned table with a row of an all-zero series, whose MAPE is
\* None, and a row of a series with zero and nonzero values, whose MAPE is a
\* positive number.
C14_Witness ==
    /\ Returned
    /\ \E i, j \in DOMAIN Table :
          /\ NonzeroPoints(Values(SeriesOfRow(Table[i]))) = {}
          /\ Table[i].MAPE = None
          /\ NonzeroPoints(Values(SeriesOfRow(Table[j]))) \notin
                 {{}, DOMAIN SeriesOfRow(Table[j])}
          /\ Table[j].MAPE.k = "num"
          /\ Table[j].MAPE.v[1] > 0

ZeroMeanSeries(y) == Mean(y)[1] = 0 /\ Variance(y)[1] # 0

\* C13 (as stated): the CV in the rows of a series of mean 0 and nonzero variance
\* is a sentinel for "undefined", neither a number nor infinity.
C13_ZeroMeanCvSentinel ==
    Returned =>
        \A i \in DOMAIN Table :
            ("CV" \in DOMAIN Table[i] /\ ZeroMeanSeries(Values(SeriesOfRow(Table[i]))))
                => Table[i].CV.k \notin {"num", "inf"}

-----------------------------------------------------------------------------
(* The perfectly linear series 100, 120, 140, 160, 180 of 2021-2025.       *)

OfLinearSeries(row) ==
    FrameOf(row.Category) = FiveYears /\ row.Metric = "m1" /\ row.Year = 2026

\* C12: the fit of the linear series has slope 20, MAE 0 and R2 1.0; its 2026 row
\* has forecast 200 and uncertainty 50; assessed, the row has 25 as its
\* uncertainty percentage and the tier Good Reliability.
C12_LinearScenario ==
    /\ (pc = "year" /\ Df = FiveYears /\ Column = "m1") =>
          /\ model.coef = Rat(20)
          /\ model.mae = Rat(0)
          /\ model.r2 = Num(Rat(1))
    /\ Returned =>
          \A i \in DOMAIN Table :
              OfLinearSeries(Table[i]) =>
                  /\ Table[i].Forecast = 200
                  /\ Table[i].Uncertainty = 50
                  /\ "R2" \in DOMAIN Table[i] => Table[i].R2 = Num(Rat(1))
    /\ pc = "assessed" =>
          \A i \in DOMAIN heap[reliability_table] :
              OfLinearSeries(heap[reliability_table][i]) =>
                  /\ heap[reliability_table][i].UncertaintyPct = Num(Rat(25))
                  /\ heap[reliability_table][i].Reliability = "Good Reliability"

\* C12 witness: an assessed table with the 2026 row of the linear series.
C12_Witness ==
    /\ pc = "assessed"
    /\ \E i \in DOMAIN heap[reliability_table] :
          /\ OfLinearSeries(heap[reliability_table][i])
          /\ heap[reliability_table][i].Forecast = 200
          /\ heap[reliability_table][i].Reliability = "Good Reliability"

-----------------------------------------------------------------------------
(* The tiers of the tables generate_forecast_table returns.                *)

FiveTiers == { categories[i] : i \in DOMAIN categories }

\* C15: in the assessment of a returned table every row has one of the five tiers
\* and never "Unknown"; a row whose rounded forecast is 0 has an uncertainty of at
\* least 50, the percentage +inf and the tier Very Low Reliability, and every other
\* row has a finite percentage.
C15_NeverUnknown ==
    pc = "assessed" =>
        \A i \in DOMAIN heap[reliability_table] :
            LET r == heap[reliability_table][i]
            IN  /\ r.Reliability \in FiveTiers
                /\ r.Reliability # "Unknown"
                /\ r.Forecast = 0 =>
                      /\ r.Uncertainty >= 50
                      /\ r.UncertaintyPct = Inf
                      /\ r.Reliability = "Very Low Reliability"
                /\ r.Forecast # 0 =>
                      /\ r.UncertaintyPct.k = "num"
                      /\ \/ FLe(r.UncertaintyPct, Rat(60))
                         \/ FGt(r.UncertaintyPct, Rat(60))

\* C15 witness: an assessed table with a row of forecast 0, rated Very Low on an
\* infinite percentage, next to a row of a nonzero forecast.
C15_Witness ==
    /\ pc = "assessed"
    /\ \E i, j \in DOMAIN heap[reliability_table] :
          /\ heap[reliability_table][i].Forecast = 0
          /\ heap[reliability_table][i].UncertaintyPct = Inf
          /\ heap[reliability_table][i].Reliability = "Very Low Reliability"
          /\ heap[reliability_table][j].Forecast # 0
          /\ heap[reliability_table][j].Reliability \in FiveTiers

-----------------------------------------------------------------------------
(* The order of the tiers.                                                 *)

\* 1 for High Reliability ... 5 for Very Low Reliability, 6 for any other value
TierRank(t) ==
    IF t \in FiveTiers THEN CHOOSE i \in DOMAIN categories : categories[i] = t ELSE 6

\* uncertainty% of a is at most that of b, both finite
PctNotAbove(a, b) ==
    /\ a.Forecast # 0 /\ b.Forecast # 0
    /\ a.Uncertainty * Abs(b.Forecast) <= b.Uncertainty * Abs(a.Forecast)

\* R2 of a is at least that of b, both numbers
R2NotBelow(a, b) == a.R2.k = "num" /\ b.R2.k = "num" /\ RLe(b.R2.v, a.R2.v)

\* C16: of two assessed rows with finite values, the one with the smaller or
\* equal uncertainty% and the larger or equal R2 has a tier at least as good; and
\* a row with uncertainty% <= 60 is rated Low Reliability or better, whatever
\* its R2.
C16_TierMonotone ==
    pc = "assessed" =>
        \A i, j \in DOMAIN heap[reliability_table] :
            LET a == heap[reliability_table][i]
                b == heap[reliability_table][j]
            IN  /\ (PctNotAbove(a, b) /\ R2NotBelow(a, b))
                      => TierRank(a.Reliability) <= TierRank(b.Reliability)
                /\ (a.Forecast # 0 /\ 100 * a.Uncertainty <= 60 * Abs(a.Forecast))
                      => TierRank(a.Reliability) <= 4

\* C16 witness: two assessed rows, the first with a smaller percentage and a
\* larger R2 than the second and a strictly better tier, the second at 60% with
\* an R2 below every threshold and rated Low.
C16_Witness ==
    /\ pc = "assessed"
    /\ \E i, j \in DOMAIN heap[reliability_table] :
          LET a == heap[reliability_table][i]
              b == heap[reliability_table][j]
          IN  /\ PctNotAbove(a, b) /\ R2NotBelow(a, b)
              /\ a.Reliability = "High Reliability"
              /\ 100 * b.Uncertainty = 60 * Abs(b.Forecast)
              /\ b.R2 = Num(Norm(-500, 1000))
              /\ b.Reliability = "Low Reliability"

-----------------------------------------------------------------------------
(* Two calls on the same data.                                             *)

====
